---- MODULE Spec2Model ----
(***************************************************************************)
(* A model of the DJI thermal orthomosaic batch tools:                     *)
(*   jpg2tiff.py         ImageProcessor      (radiometric converter)       *)
(*   extract_metadata.py MetadataProcessor   (metadata extractor)          *)
(*   copy_metadata.py    MetadataCopier      (metadata propagator)         *)
(*   add_timestamp.py    TimestampProcessor  (timestamp renamer)           *)
(*   main.py             ProcessManager      (pipeline orchestrator)       *)
(* File names and tag values are sequences of one-character strings, so    *)
(* that splitting, suffix matching and parsing are computed, not assumed.  *)
(***************************************************************************)
EXTENDS Integers, Sequences, FiniteSets, TLC

VARIABLES
    platform,       \* platform.system(): "Windows" | "Linux"
    \* ---- ImageProcessor._process_raw_image on one raw dump
    raw_words,      \* the raw file: a sequence of 16-bit words (two bytes each)
    raw_size,       \* img.size of the original image: <<width, height>>
    raw_frame,      \* the array img_data handed to Image.fromarray, or NoFrame
    raw_pc,         \* "call" | "saved" | "ValueError"
    \* ---- TimestampProcessor on one directory of images
    ts_files,       \* the directory: file name -> value of its DateTimeOriginal tag
    ts_processed,   \* self.processed_count
    ts_skipped,     \* self.skipped_count
    ts_errors,      \* self.error_count
    ts_calls,       \* the calls of process_single_image made so far, in order
    \* ---- the batch tools over the folders of one root directory
    fs,             \* the file system: folder -> its files and sub-directories
    mode,           \* the script that runs: "run_all" | "extract" | "convert" | "copy"
    pc,             \* where the running script is
    runs,           \* how many times the script has been started on this root
    todo,           \* the subfolders the running folder loop has still to visit
    cur,            \* the folder being processed (0: none)
    queue,          \* what the running for-loop over files or pairs has still to visit
    ended,          \* stage -> folder -> how the stage's folder handler ended in this run
    \* ---- MetadataCopier
    tiff_files,     \* find_image_pairs: the dict stem -> TIFF file name
    pairs,          \* find_image_pairs: pairs; process_single_folder: image_pairs
    success_count,  \* process_single_folder: success_count
    copy_log,       \* the copy_metadata calls of the running folder, in order
    \* ---- MetadataProcessor
    tmp_dir,        \* self.temp_dir: whether it exists, and the names of its files
    metadata_list,  \* process_folder: metadata_list
    \* ---- ImageProcessor
    image_files,    \* _move_files_and_process: image_files
    locked,         \* the folders whose input_dir the process cannot remove
    read_only       \* the names of the captured files with the read-only attribute

rawVars == <<raw_words, raw_size, raw_frame, raw_pc>>
tsVars == <<ts_files, ts_processed, ts_skipped, ts_errors, ts_calls>>
cpVars == <<tiff_files, pairs, success_count, copy_log>>
ctlVars == <<mode, pc, runs, todo, cur, queue, ended>>
exVars == <<tmp_dir, metadata_list>>
cvVars == <<image_files, locked, read_only>>
batchVars == <<fs, ctlVars, cpVars, exVars, cvVars>>

vars == <<platform, rawVars, tsVars, batchVars>>

(***************************************************************************)
(* Bounds of the model.                                                    *)
(***************************************************************************)
\* largest number of pixels (width*height) of an image in the raw-frame model
MaxPixels == 4
\* largest number of process_single_image calls in one run of the renamer model
MaxCalls == 3
\* largest number of files in the renamer's directory at the start
MaxTsFiles == 2
\* number of subfolders of the root directory
NFolders == 2
\* largest number of files in one directory of a folder at the start
MaxFiles == 2
MaxRuns == 2

(***************************************************************************)
(* Generic helpers on sequences.                                           *)
(***************************************************************************)
\* the sequences of length n over S
SeqsOfLen(S, n) == [1..n -> S]

(***************************************************************************)
(* Strings as sequences of characters: str and pathlib operations.         *)
(***************************************************************************)
Digits == <<"0", "1", "2", "3", "4", "5", "6", "7", "8", "9">>

IsDigit(ch) == \E i \in 1..10 : Digits[i] = ch

\* int(ch) of one decimal digit
DigitVal(ch) == (CHOOSE i \in 1..10 : Digits[i] = ch) - 1

\* the decimal digit of d in 0..9
DigitChar(d) == Digits[d + 1]

UpperLetters == <<"A", "B", "C", "D", "E", "F", "G", "I", "J", "N", "P", "T", "X">>
LowerLetters == <<"a", "b", "c", "d", "e", "f", "g", "i", "j", "n", "p", "t", "x">>

\* str.lower() on one character (of the alphabet the model draws names from)
LowerChar(ch) ==
    IF \E i \in 1..Len(UpperLetters) : UpperLetters[i] = ch
    THEN LowerLetters[CHOOSE i \in 1..Len(UpperLetters) : UpperLetters[i] = ch]
    ELSE ch

\* str.lower()
Lower(s) == [i \in 1..Len(s) |-> LowerChar(s[i])]

\* str.endswith(suffix)
EndsWith(s, suffix) ==
    /\ Len(suffix) <= Len(s)
    /\ SubSeq(s, Len(s) - Len(suffix) + 1, Len(s)) = suffix

\* str.rfind(ch) + 1: the last position of ch in s, 0 when absent
RFind(s, ch) ==
    IF \E i \in 1..Len(s) : s[i] = ch
    THEN CHOOSE i \in 1..Len(s) : s[i] = ch /\ \A j \in (i + 1)..Len(s) : s[j] # ch
    ELSE 0

\* str.find(ch) + 1: the first position of ch in s, 0 when absent
Find(s, ch) ==
    IF \E i \in 1..Len(s) : s[i] = ch
    THEN CHOOSE i \in 1..Len(s) : s[i] = ch /\ \A j \in 1..(i - 1) : s[j] # ch
    ELSE 0

\* PurePath.suffix: from the last dot, unless the dot is first or last
Suffix(name) ==
    LET i == RFind(name, ".")
    IN  IF 1 < i /\ i < Len(name) THEN SubSeq(name, i, Len(name)) ELSE <<>>

\* PurePath.stem: the name without its suffix
Stem(name) ==
    LET i == RFind(name, ".")
    IN  IF 1 < i /\ i < Len(name) THEN SubSeq(name, 1, i - 1) ELSE name

\* str.split(sep) for a one-character separator
RECURSIVE Split(_, _)
Split(s, sep) ==
    LET i == Find(s, sep)
    IN  IF i = 0 THEN <<s>>
        ELSE <<SubSeq(s, 1, i - 1)>> \o Split(SubSeq(s, i + 1, Len(s)), sep)

\* sep.join(parts)
RECURSIVE Join(_, _)
Join(parts, sep) ==
    IF Len(parts) = 0 THEN <<>>
    ELSE IF Len(parts) = 1 THEN parts[1]
    ELSE parts[1] \o <<sep>> \o Join(Tail(parts), sep)

\* the value of a non-empty string of decimal digits
RECURSIVE DecimalValue(_)
DecimalValue(s) ==
    IF Len(s) = 0 THEN 0
    ELSE 10 * DecimalValue(SubSeq(s, 1, Len(s) - 1)) + DigitVal(s[Len(s)])

AllDigits(s) == \A i \in 1..Len(s) : IsDigit(s[i])

\* "%02d" % n
Pad2(n) == <<DigitChar((n \div 10) % 10), DigitChar(n % 10)>>

\* "%04d" % n
Pad4(n) == Pad2(n \div 100) \o Pad2(n % 100)

(***************************************************************************)
(* jpg2tiff.py: ImageProcessor._process_raw_image (the numeric part)       *)
(***************************************************************************)
NoFrame == <<>>

\* dtype='int16': a 16-bit word read as a two's complement signed sample
ToInt16(word) == IF word >= 32768 THEN word - 65536 ELSE word

\* np.fromfile(raw_path, dtype='int16')
FromFileInt16(words) == [i \in 1..Len(words) |-> ToInt16(words[i])]

\* x / 10 of numpy true division, as a decimal with one fractional digit:
\* sign, integer part and tenths of the quotient (15.0 is [neg |-> FALSE,
\* int |-> 15, frac |-> 0])
DivTen(x) ==
    LET a == IF x < 0 THEN -x ELSE x
    IN  [neg |-> x < 0, int |-> a \div 10, frac |-> a % 10]

\* ndarray.reshape(height, width) accepts exactly height*width elements
ReshapeOk(data, height, width) == Len(data) = height * width

\* ndarray.reshape(height, width) in C (row-major) order: row r, column c
\* (both from 1) is element (r-1)*width + c of the flat buffer
ReshapeColumnMajor(data, height, width) ==
    [r \in 1..height |-> [c \in 1..width |-> data[(c - 1) * height + r]]]

Reshape(data, height, width) ==
    [r \in 1..height |-> [c \in 1..width |-> data[(r - 1) * width + c]]]

\* img_data.reshape(height, width) / 10
ScaleFrame(grid) ==
    [r \in 1..Len(grid) |-> [c \in 1..Len(grid[r]) |-> DivTen(grid[r][c])]]

\* the frame _process_raw_image builds from the raw words and img.size
RawToFrame(words, size) ==
    ScaleFrame(Reshape(FromFileInt16(words), size[2], size[1]))

\* 16-bit words a raw dump may hold: 150, -50, 200, 300 and -32768
RawWordPool == {150, 65486, 200, 300, 32768}

\* img.size values: <<width, height>> with at most MaxPixels pixels
ImageSizes ==
    {s \in (1..MaxPixels) \X (1..MaxPixels) : s[1] * s[2] <= MaxPixels}

\* lengths of the raw dump next to one image: exact, one short, one long
RawLengths(size) ==
    {n \in {size[1] * size[2] - 1, size[1] * size[2], size[1] * size[2] + 1} : n >= 0}

\* _process_raw_image, lines 127-145, when reshape accepts the buffer
ProcessRawImage ==
    /\ raw_pc = "call"
    /\ ReshapeOk(FromFileInt16(raw_words), raw_size[2], raw_size[1])
    /\ raw_frame' = RawToFrame(raw_words, raw_size)
    /\ raw_pc' = "saved"
    /\ UNCHANGED <<platform, tsVars, batchVars, raw_words, raw_size>>

\* _process_raw_image when reshape raises ValueError (size mismatch)
ProcessRawImageError ==
    /\ raw_pc = "call"
    /\ ~ReshapeOk(FromFileInt16(raw_words), raw_size[2], raw_size[1])
    /\ raw_pc' = "ValueError"
    /\ UNCHANGED <<platform, tsVars, batchVars, raw_words, raw_size, raw_frame>>

(***************************************************************************)
(* add_timestamp.py: TimestampProcessor                                    *)
(***************************************************************************)
\* Python's None, where a string is expected
None == <<"None">>

\* calendar: the days of month m of year y
DaysInMonth(y, m) ==
    IF m = 2
    THEN (IF (y % 4 = 0 /\ y % 100 # 0) \/ y % 400 = 0 THEN 29 ELSE 28)
    ELSE IF m \in {4, 6, 9, 11} THEN 30 ELSE 31

\* one numeric field of strptime: one or two digits (four for %Y)
FieldOk(s, lens) == Len(s) \in lens /\ AllDigits(s)

\* datetime.strptime(date_str, '%Y:%m:%d %H:%M:%S') succeeds (no ValueError);
\* for strings whose fields are separated by single ':' and one ' '
StrptimeOk(date_str) ==
    LET halves == Split(date_str, " ")
    IN  /\ Len(halves) = 2
        /\ LET d == Split(halves[1], ":")
               t == Split(halves[2], ":")
           IN  /\ Len(d) = 3 /\ Len(t) = 3
               /\ FieldOk(d[1], {4}) /\ FieldOk(d[2], {1, 2}) /\ FieldOk(d[3], {1, 2})
               /\ FieldOk(t[1], {1, 2}) /\ FieldOk(t[2], {1, 2}) /\ FieldOk(t[3], {1, 2})
               /\ DecimalValue(d[1]) >= 1
               /\ DecimalValue(d[2]) \in 1..12
               /\ DecimalValue(d[3]) \in 1..DaysInMonth(DecimalValue(d[1]), DecimalValue(d[2]))
               /\ DecimalValue(t[1]) \in 0..23
               /\ DecimalValue(t[2]) \in 0..59
               /\ DecimalValue(t[3]) \in 0..59

\* dt.strftime('%Y%m%d%H%M%S') of the parsed date
Strftime(date_str) ==
    LET halves == Split(date_str, " ")
        d == Split(halves[1], ":")
        t == Split(halves[2], ":")
    IN  Pad4(DecimalValue(d[1])) \o Pad2(DecimalValue(d[2])) \o Pad2(DecimalValue(d[3]))
        \o Pad2(DecimalValue(t[1])) \o Pad2(DecimalValue(t[2])) \o Pad2(DecimalValue(t[3]))

\* TimestampProcessor.format_timestamp
format_timestamp(date_str) ==
    IF date_str # None /\ Len(date_str) > 0 /\ StrptimeOk(date_str)
    THEN Strftime(date_str)
    ELSE None

\* TimestampProcessor.construct_new_filename, on the file name (the parent
\* directory is kept)
construct_new_filename(file_name, timestamp) ==
    LET parts == Split(Stem(file_name), "_")
    IN  IF Len(parts) >= 3
        THEN parts[1] \o <<"_">> \o timestamp \o <<"_">> \o Join(Tail(parts), "_")
             \o Suffix(file_name)
        ELSE None

\* TimestampProcessor.get_exif_date: the DateTimeOriginal value, None when the
\* file or the tag is missing
get_exif_date(path) ==
    IF path \in DOMAIN ts_files THEN ts_files[path] ELSE None

\* the path process_single_image renames image_path to, None when it skips
RenameTarget(path) ==
    LET date_str == get_exif_date(path)
        timestamp == IF date_str = None \/ Len(date_str) = 0 THEN None
                     ELSE format_timestamp(date_str)
        new_path == IF timestamp = None THEN None
                    ELSE construct_new_filename(path, timestamp)
    IN  IF new_path = None \/ new_path = path THEN None ELSE new_path

\* the directory after os.rename(src, dst) (dst is replaced when it exists)
Renamed(files, src, dst) ==
    [n \in (DOMAIN files \ {src}) \cup {dst} |-> IF n = dst THEN files[src] ELSE files[n]]

TsCall(path, ret, to, skipped) ==
    [path |-> path, ret |-> ret, to |-> to, skipped |-> skipped]

TsNamePool ==
    { <<"D", "J", "I", "_", "0", "0", "0", "1", "_", "0", "0", "1", ".", "J", "P", "G">>,
      <<"D", "J", "I", "_", "0", "0", "0", "1", ".", "j", "p", "g">>,
      <<"D", "J", "I", "_", "2", "0", "2", "5", "0", "2", "0", "1", "1", "4", "3", "0", "2", "2",
        "_", "0", "0", "0", "1", "_", "0", "0", "1", ".", "J", "P", "G">>,
      <<"a", "_", "b", "_", "c", ".", "j", "p", "g">> }

TsDatePool ==
    { <<"2", "0", "2", "5", ":", "0", "2", ":", "0", "1", " ", "1", "4", ":", "3", "0", ":", "2", "2">>,
      <<"2", "0", "2", "5", ":", "2", ":", "1", " ", "4", ":", "3", ":", "2">>,
      <<"2", "0", "2", "5", ":", "0", "2", ":", "3", "0", " ", "0", "0", ":", "0", "0", ":", "0", "0">>,
      <<>>,
      None }

\* process_single_image(image_path), lines 128-132: the path does not exist
ProcessSingleImageMissing(path) ==
    /\ Len(ts_calls) < MaxCalls
    /\ path \notin DOMAIN ts_files
    /\ ts_calls' = Append(ts_calls, TsCall(path, FALSE, path, ts_skipped))
    /\ UNCHANGED <<platform, rawVars, batchVars, ts_files, ts_processed, ts_skipped, ts_errors>>

\* process_single_image(image_path), lines 133-150: no date, no timestamp, no new
\* name or an unchanged name: the file is skipped
ProcessSingleImageSkip(path) ==
    /\ Len(ts_calls) < MaxCalls
    /\ path \in DOMAIN ts_files
    /\ RenameTarget(path) = None
    /\ ts_skipped' = ts_skipped + 1
    /\ ts_calls' = Append(ts_calls, TsCall(path, FALSE, path, ts_skipped + 1))
    /\ UNCHANGED <<platform, rawVars, batchVars, ts_files, ts_processed, ts_errors>>

\* process_single_image(image_path), lines 152-155: the file is renamed
ProcessSingleImageRename(path) ==
    /\ Len(ts_calls) < MaxCalls
    /\ path \in DOMAIN ts_files
    /\ RenameTarget(path) # None
    /\ ~(platform = "Windows" /\ RenameTarget(path) \in DOMAIN ts_files)
    /\ ts_files' = Renamed(ts_files, path, RenameTarget(path))
    /\ ts_processed' = ts_processed + 1
    /\ ts_calls' = Append(ts_calls, TsCall(path, TRUE, RenameTarget(path), ts_skipped))
    /\ UNCHANGED <<platform, rawVars, batchVars, ts_skipped, ts_errors>>

\* process_single_image(image_path), lines 157-162: Path.rename raises on Windows
\* when the new name exists (FileExistsError)
ProcessSingleImageError(path) ==
    /\ Len(ts_calls) < MaxCalls
    /\ path \in DOMAIN ts_files
    /\ RenameTarget(path) # None
    /\ platform = "Windows" /\ RenameTarget(path) \in DOMAIN ts_files
    /\ ts_errors' = ts_errors + 1
    /\ ts_calls' = Append(ts_calls, TsCall(path, FALSE, path, ts_skipped))
    /\ UNCHANGED <<platform, rawVars, batchVars, ts_files, ts_processed, ts_skipped>>

(***************************************************************************)
(* The file system the batch tools work on, and the metadata codec.        *)
(***************************************************************************)
Folders == 1..NFolders

Stages == {"extract", "convert", "copy"}

\* a directory without entries
NoFiles == [n \in {} |-> {}]

\* a directory that does not exist / an existing directory with these files
NoDir == [exists |-> FALSE, files |-> NoFiles]
Dir(files) == [exists |-> TRUE, files |-> files]

\* a tag mapping without tags
NoTags == [k \in {} |-> <<>>]

\* the content of one file: its two tag namespaces, what the metadata codec
\* (pyexiv2) does with it ("ok", "bad": cannot be opened, "exif_ro": modify_exif
\* raises, "xmp_ro": modify_xmp raises), what the conversion makes of it ("ok",
\* "fail": non-zero exit of the thermal SDK, "short": a dump of the wrong size,
\* "nojpeg": piexif.load raises, "none": not a capture), and for a converted
\* artifact the input file it was made from
File(exif, xmp, codec, sdk, src) ==
    [exif |-> exif, xmp |-> xmp, codec |-> codec, sdk |-> sdk, src |-> src]

\* files: the directory files with name n holding content
WithFile(files, n, content) ==
    [m \in DOMAIN files \cup {n} |-> IF m = n THEN content ELSE files[m]]

\* str.find(sub) >= 0: sub occurs in s
Contains(s, sub) ==
    \E i \in 1..(Len(s) - Len(sub) + 1) : SubSeq(s, i, i + Len(sub) - 1) = sub

\* the file names of a directory are case-insensitive on Windows
FsCase(s) == IF platform = "Windows" THEN Lower(s) ELSE s

\* Path.glob('*.[Jj][Pp][Gg]') matches name
GlobJpg(name) == EndsWith(Lower(name), <<".", "j", "p", "g">>)

\* Path.glob('*.tif*') matches name
GlobTif(name) == Contains(FsCase(name), <<".", "t", "i", "f">>)

\* a variant of Modify that replaces the destination's whole mapping
ModifyReplacesAll(dst_tags, tags) == tags

\* pyexiv2 modify_exif / modify_xmp: the given tags are written over the
\* destination's tags of the same keys, its other tags stay
Modify(dst_tags, tags) ==
    [k \in DOMAIN dst_tags \cup DOMAIN tags |->
        IF k \in DOMAIN tags THEN tags[k] ELSE dst_tags[k]]

\* the orders in which a directory listing may return the names in S
Listings(S) ==
    {l \in [1..Cardinality(S) -> S] : \A i, j \in 1..Cardinality(S) : i # j => l[i] # l[j]}

(***************************************************************************)
(* copy_metadata.py: MetadataCopier                                        *)
(***************************************************************************)
\* the subfolders of the root in listing order (folders are numbered in it)
Subfolders == [i \in 1..NFolders |-> i]

\* how the handler of stage st ended for folder f
Ended(st, f, how) == [ended EXCEPT ![st][f] = how]

NotEnded == [st \in Stages |-> [f \in Folders |-> "no"]]

\* a variant of TiffDicts that keys the dict by the lower-cased stem
TiffDictsLowerKeys(files) ==
    LET tiffs == {n \in DOMAIN files : GlobTif(n)}
        stems == {Lower(Stem(n)) : n \in tiffs}
    IN  {d \in [stems -> tiffs] : \A st \in stems : Lower(Stem(d[st])) = st}

\* find_image_pairs, lines 47-49: the dicts {f.stem: f for f in dst_dir.glob('*.tif*')}
\* can be; of two files with one stem the one listed last stays
TiffDicts(files) ==
    LET tiffs == {n \in DOMAIN files : GlobTif(n)}
        stems == {Stem(n) : n \in tiffs}
    IN  {d \in [stems -> tiffs] : \A st \in stems : Stem(d[st]) = st}

\* MetadataCopier.copy_metadata on the contents of the source and the destination
\* file: the value returned and the destination file afterwards
copy_metadata(src, dst) ==
    IF src.codec = "bad" \/ dst.codec = "bad"
    THEN [ret |-> FALSE, dst |-> dst]
    ELSE IF DOMAIN src.exif # {} /\ dst.codec = "exif_ro"
    THEN [ret |-> FALSE, dst |-> dst]
    ELSE LET d1 == IF DOMAIN src.exif # {}
                   THEN [dst EXCEPT !.exif = Modify(dst.exif, src.exif)]
                   ELSE dst
         IN  IF DOMAIN src.xmp # {} /\ dst.codec = "xmp_ro"
             THEN [ret |-> FALSE, dst |-> d1]
             ELSE [ret |-> TRUE,
                   dst |-> IF DOMAIN src.xmp # {}
                           THEN [d1 EXCEPT !.xmp = Modify(d1.xmp, src.xmp)]
                           ELSE d1]

\* one entry of copy_log: the pair, the two files before the call, the result
CopyCall(pair, src, dst, ret) ==
    [pair |-> pair, src |-> src, before |-> dst, ret |-> ret]

notCp == <<platform, rawVars, tsVars, exVars, cvVars>>

\* MetadataCopier.process_all, lines 143-156
CopyProcessAll ==
    /\ pc = "cp_start"
    /\ todo' = Subfolders
    /\ pc' = "cp_loop"
    /\ UNCHANGED <<notCp, fs, mode, runs, cur, queue, ended, cpVars>>

\* process_single_folder, lines 102-112: input_dir or out_dir is missing
CopySkipFolder ==
    /\ pc = "cp_loop" /\ todo # <<>>
    /\ LET f == Head(todo)
       IN  /\ ~fs[f].input_dir.exists \/ ~fs[f].out_dir.exists
           /\ cur' = f
           /\ ended' = Ended("copy", f, "returned")
    /\ todo' = Tail(todo)
    /\ pairs' = <<>> /\ copy_log' = <<>> /\ success_count' = 0
    /\ UNCHANGED <<notCp, fs, mode, pc, runs, queue, tiff_files>>

\* find_image_pairs, lines 41-44: the source directory holds no JPG file
FindNoJpg ==
    /\ pc = "cp_loop" /\ todo # <<>>
    /\ LET f == Head(todo)
       IN  /\ fs[f].input_dir.exists /\ fs[f].out_dir.exists
           /\ {n \in DOMAIN fs[f].input_dir.files : GlobJpg(n)} = {}
           /\ cur' = f
    /\ todo' = Tail(todo)
    /\ pairs' = <<>> /\ copy_log' = <<>> /\ success_count' = 0
    /\ pc' = "cp_found"
    /\ UNCHANGED <<notCp, fs, mode, runs, queue, ended, tiff_files>>

\* find_image_pairs, lines 41-52: the JPG files are listed, the TIFF dict built
FindStart ==
    /\ pc = "cp_loop" /\ todo # <<>>
    /\ LET f == Head(todo)
           jpgs == {n \in DOMAIN fs[f].input_dir.files : GlobJpg(n)}
       IN  /\ fs[f].input_dir.exists /\ fs[f].out_dir.exists
           /\ jpgs # {}
           /\ cur' = f
           /\ queue' \in Listings(jpgs)
           /\ tiff_files' \in TiffDicts(fs[f].out_dir.files)
    /\ todo' = Tail(todo)
    /\ pairs' = <<>> /\ copy_log' = <<>> /\ success_count' = 0
    /\ pc' = "cp_find"
    /\ UNCHANGED <<notCp, fs, mode, runs, ended>>

\* find_image_pairs, lines 53-56: a TIFF file of the same stem is found
FindPairMatch ==
    /\ pc = "cp_find" /\ queue # <<>>
    /\ Stem(Head(queue)) \in DOMAIN tiff_files
    /\ pairs' = Append(pairs, <<Head(queue), tiff_files[Stem(Head(queue))]>>)
    /\ queue' = Tail(queue)
    /\ UNCHANGED <<notCp, fs, mode, pc, runs, todo, cur, ended, tiff_files,
                   success_count, copy_log>>

\* a variant of FindPairWarn that gives up the loop at the first unmatched file
FindPairWarnAborts ==
    /\ pc = "cp_find" /\ queue # <<>>
    /\ Stem(Head(queue)) \notin DOMAIN tiff_files
    /\ queue' = <<>>
    /\ UNCHANGED <<notCp, fs, mode, pc, runs, todo, cur, ended, cpVars>>

\* find_image_pairs, lines 57-58: no TIFF file of that stem: a warning
FindPairWarn ==
    /\ pc = "cp_find" /\ queue # <<>>
    /\ Stem(Head(queue)) \notin DOMAIN tiff_files
    /\ queue' = Tail(queue)
    /\ UNCHANGED <<notCp, fs, mode, pc, runs, todo, cur, ended, cpVars>>

\* find_image_pairs, line 60: return pairs
FindReturn ==
    /\ pc = "cp_find" /\ queue = <<>>
    /\ pc' = "cp_found"
    /\ UNCHANGED <<notCp, fs, mode, runs, todo, cur, queue, ended, cpVars>>

\* process_single_folder, lines 121-123: no pair was found
CopyNoPairs ==
    /\ pc = "cp_found" /\ pairs = <<>>
    /\ ended' = Ended("copy", cur, "returned")
    /\ pc' = "cp_loop"
    /\ UNCHANGED <<notCp, fs, mode, runs, todo, cur, queue, cpVars>>

\* process_single_folder, lines 125-129: the loop over image_pairs begins
CopyBegin ==
    /\ pc = "cp_found" /\ pairs # <<>>
    /\ queue' = pairs
    /\ success_count' = 0
    /\ pc' = "cp_copy"
    /\ UNCHANGED <<notCp, fs, mode, runs, todo, cur, ended, tiff_files, pairs, copy_log>>

\* a variant of CopyPairFailure that leaves the loop at the first failure
CopyPairFailureAborts ==
    /\ pc = "cp_copy" /\ queue # <<>>
    /\ LET pair == Head(queue)
           src == fs[cur].input_dir.files[pair[1]]
           dst == fs[cur].out_dir.files[pair[2]]
           res == copy_metadata(src, dst)
       IN  /\ ~res.ret
           /\ fs' = [fs EXCEPT ![cur].out_dir.files[pair[2]] = res.dst]
           /\ copy_log' = Append(copy_log, CopyCall(pair, src, dst, FALSE))
    /\ queue' = <<>>
    /\ UNCHANGED <<notCp, mode, pc, runs, todo, cur, ended, tiff_files, pairs,
                   success_count>>

\* process_single_folder, lines 130-132, when copy_metadata returns False: the
\* loop goes on with the next pair
CopyPairFailure ==
    /\ pc = "cp_copy" /\ queue # <<>>
    /\ LET pair == Head(queue)
           src == fs[cur].input_dir.files[pair[1]]
           dst == fs[cur].out_dir.files[pair[2]]
           res == copy_metadata(src, dst)
       IN  /\ ~res.ret
           /\ fs' = [fs EXCEPT ![cur].out_dir.files[pair[2]] = res.dst]
           /\ copy_log' = Append(copy_log, CopyCall(pair, src, dst, FALSE))
    /\ queue' = Tail(queue)
    /\ UNCHANGED <<notCp, mode, pc, runs, todo, cur, ended, tiff_files, pairs,
                   success_count>>

\* process_single_folder, lines 130-132, when copy_metadata returns True
CopyPairSuccess ==
    /\ pc = "cp_copy" /\ queue # <<>>
    /\ LET pair == Head(queue)
           src == fs[cur].input_dir.files[pair[1]]
           dst == fs[cur].out_dir.files[pair[2]]
           res == copy_metadata(src, dst)
       IN  /\ res.ret
           /\ fs' = [fs EXCEPT ![cur].out_dir.files[pair[2]] = res.dst]
           /\ copy_log' = Append(copy_log, CopyCall(pair, src, dst, TRUE))
    /\ success_count' = success_count + 1
    /\ queue' = Tail(queue)
    /\ UNCHANGED <<notCp, mode, pc, runs, todo, cur, ended, tiff_files, pairs>>

\* process_single_folder, line 134: the loop is over, the count is printed
CopyFolderDone ==
    /\ pc = "cp_copy" /\ queue = <<>>
    /\ ended' = Ended("copy", cur, "returned")
    /\ pc' = "cp_loop"
    /\ UNCHANGED <<notCp, fs, mode, runs, todo, cur, queue, cpVars>>

\* process_all, line 162: every subfolder was visited
CopyAllDone ==
    /\ pc = "cp_loop" /\ todo = <<>>
    /\ pc' = "done"
    /\ UNCHANGED <<notCp, fs, mode, runs, todo, cur, queue, ended, cpVars>>

CopyNext ==
    \/ CopyProcessAll
    \/ CopySkipFolder
    \/ FindNoJpg
    \/ FindStart
    \/ FindPairMatch
    \/ FindPairWarn
    \/ FindReturn
    \/ CopyNoPairs
    \/ CopyBegin
    \/ CopyPairFailure
    \/ CopyPairSuccess
    \/ CopyFolderDone
    \/ CopyAllDone

(***************************************************************************)
(* extract_metadata.py: MetadataProcessor                                  *)
(***************************************************************************)
\* str.strip() (of blanks)
RECURSIVE Strip(_)
Strip(s) ==
    IF Len(s) > 0 /\ s[1] = " " THEN Strip(Tail(s))
    ELSE IF Len(s) > 0 /\ s[Len(s)] = " " THEN Strip(SubSeq(s, 1, Len(s) - 1))
    ELSE s

\* str.lstrip('+')
RECURSIVE LStripPlus(_)
LStripPlus(s) == IF Len(s) > 0 /\ s[1] = "+" THEN LStripPlus(Tail(s)) ELSE s

\* float(value) for strings over digits, sign, '.', blank and letters: the sign,
\* the digits before and after the point; ok is FALSE where float raises ValueError
ParseFloat(s) ==
    LET signed == Len(s) > 0 /\ s[1] \in {"+", "-"}
        body == IF signed THEN Tail(s) ELSE s
        dot == Find(body, ".")
        ip == IF dot = 0 THEN body ELSE SubSeq(body, 1, dot - 1)
        fp == IF dot = 0 THEN <<>> ELSE SubSeq(body, dot + 1, Len(body))
    IN  [ok |-> AllDigits(ip) /\ AllDigits(fp) /\ Len(ip) + Len(fp) > 0,
         neg |-> signed /\ s[1] = "-", ip |-> ip, fp |-> fp]

RECURSIVE StripLeadingZeros(_)
StripLeadingZeros(d) ==
    IF Len(d) > 0 /\ d[1] = "0" THEN StripLeadingZeros(Tail(d)) ELSE d

RECURSIVE StripTrailingZeros(_)
StripTrailingZeros(d) ==
    IF Len(d) > 0 /\ d[Len(d)] = "0" THEN StripTrailingZeros(SubSeq(d, 1, Len(d) - 1)) ELSE d

\* str(coord) of a parsed float (short decimals: no exponent form)
FloatStr(p) ==
    LET ip == StripLeadingZeros(p.ip)
        fp == StripTrailingZeros(p.fp)
    IN  (IF p.neg THEN <<"-">> ELSE <<>>)
        \o (IF ip = <<>> THEN <<"0">> ELSE ip) \o <<".">>
        \o (IF fp = <<>> THEN <<"0">> ELSE fp)

\* -bound <= coord <= bound
InRange(p, bound) ==
    \/ DecimalValue(p.ip) < bound
    \/ DecimalValue(p.ip) = bound /\ StripTrailingZeros(p.fp) = <<>>

\* MetadataProcessor._process_coordinate
process_coordinate(value, is_latitude) ==
    LET v == Strip(value)
        p == ParseFloat(v)
    IN  IF v = <<>> THEN <<>>
        ELSE IF ~p.ok THEN <<>>
        ELSE IF InRange(p, IF is_latitude THEN 90 ELSE 180) THEN FloatStr(p)
        ELSE <<>>

\* xmp_data.get(key, '')
Get(tags, key) == IF key \in DOMAIN tags THEN tags[key] ELSE <<>>

\* extract_metadata, lines 131-151: the metadata dict built from the XMP tags
\* (name: 照片名称, lat: 纬度, lon: 经度, alt: 高度, hacc: 水平精度, vacc: 垂直精度);
\* the two accuracies are numbers, shown here as str() prints them
MetadataDict(name, xmp_data) ==
    LET rtk_std_lat == Get(xmp_data, "Xmp.drone-dji.RtkStdLat")
    IN  [name |-> name,
         lat |-> process_coordinate(Get(xmp_data, "Xmp.drone-dji.GpsLatitude"), TRUE),
         lon |-> process_coordinate(Get(xmp_data, "Xmp.drone-dji.GpsLongitude"), FALSE),
         alt |-> LStripPlus(Get(xmp_data, "Xmp.drone-dji.AbsoluteAltitude")),
         yaw |-> LStripPlus(Get(xmp_data, "Xmp.drone-dji.GimbalYawDegree")),
         pitch |-> LStripPlus(Get(xmp_data, "Xmp.drone-dji.GimbalPitchDegree")),
         roll |-> LStripPlus(Get(xmp_data, "Xmp.drone-dji.GimbalRollDegree")),
         hacc |-> IF rtk_std_lat # <<>> THEN <<"0", ".", "0", "3">> ELSE <<"2">>,
         vacc |-> IF rtk_std_lat # <<>> THEN <<"0", ".", "0", "6">> ELSE <<"1", "0">>]

DataFields == {"lat", "lon", "alt", "yaw", "pitch", "roll", "hacc", "vacc"}

\* extract_metadata, line 154: all(value == '' for every key but the name)
AllValuesEmpty(metadata) == \A k \in DataFields : metadata[k] = <<>>

\* extract_metadata, lines 127-161: found is FALSE where None is returned (the
\* codec raises, or no valid metadata is found), else metadata is returned
extract_metadata(name, content) ==
    LET metadata == MetadataDict(name, content.xmp)
    IN  [found |-> content.codec # "bad" /\ ~AllValuesEmpty(metadata),
         metadata |-> metadata]

\* extract_metadata, line 122: the name of the duplicate in the temporary area
TempName(name) == <<"t", "e", "m", "p", "_">> \o name

\* process_folder, line 240: list(glob('*.jpg')) + list(glob('*.JPG')); each glob
\* ignores case on Windows and lists the directory in its own order
JpgFileLists(names) ==
    LET lower == {n \in names : EndsWith(FsCase(n), <<".", "j", "p", "g">>)}
        upper == {n \in names : EndsWith(FsCase(n), FsCase(<<".", "J", "P", "G">>))}
    IN  {a \o b : a \in Listings(lower), b \in Listings(upper)}

notEx == <<platform, rawVars, tsVars, cpVars, cvVars>>

\* MetadataProcessor() and process_all, lines 268-279
ExProcessAll ==
    /\ pc = "ex_start"
    /\ tmp_dir' = [exists |-> TRUE, files |-> {}]
    /\ todo' = Subfolders
    /\ pc' = "ex_loop"
    /\ UNCHANGED <<notEx, fs, mode, runs, cur, queue, ended, metadata_list>>

\* process_folder, lines 240-244: the folder holds no JPG file
ExFolderNoJpg ==
    /\ pc = "ex_loop" /\ todo # <<>>
    /\ JpgFileLists(DOMAIN fs[Head(todo)].root) = {<<>>}
    /\ cur' = Head(todo)
    /\ todo' = Tail(todo)
    /\ metadata_list' = <<>>
    /\ ended' = Ended("extract", Head(todo), "returned")
    /\ UNCHANGED <<notEx, fs, mode, pc, runs, queue, tmp_dir>>

\* process_folder, lines 240-250: the JPG files are listed
ExFolderStart ==
    /\ pc = "ex_loop" /\ todo # <<>>
    /\ queue' \in JpgFileLists(DOMAIN fs[Head(todo)].root)
    /\ queue' # <<>>
    /\ cur' = Head(todo)
    /\ todo' = Tail(todo)
    /\ metadata_list' = <<>>
    /\ pc' = "ex_file"
    /\ UNCHANGED <<notEx, fs, mode, runs, ended, tmp_dir>>

\* shutil.copy2 copies the read-only attribute with the file; on Windows a
\* read-only file can neither be unlinked nor written over
Undeletable(name) == platform = "Windows" /\ name \in read_only

\* extract_metadata, lines 163-168: the duplicate is unlinked; an exception of
\* unlink is swallowed
Unlinked(files, name) ==
    IF Undeletable(name) THEN files ELSE files \ {TempName(name)}

\* extract_metadata, lines 121-125: the file is copied to the temporary area
ExCopy ==
    /\ pc = "ex_file" /\ queue # <<>>
    /\ ~(Undeletable(Head(queue)) /\ TempName(Head(queue)) \in tmp_dir.files)
    /\ tmp_dir' = [tmp_dir EXCEPT !.files = @ \cup {TempName(Head(queue))}]
    /\ pc' = "ex_read"
    /\ UNCHANGED <<notEx, fs, mode, runs, todo, cur, queue, ended, metadata_list>>

\* extract_metadata, lines 125 and 160-168: copy2 raises on a duplicate it cannot
\* write over; None is returned; the duplicate cannot be unlinked
ExCopyRaises ==
    /\ pc = "ex_file" /\ queue # <<>>
    /\ Undeletable(Head(queue)) /\ TempName(Head(queue)) \in tmp_dir.files
    /\ queue' = Tail(queue)
    /\ UNCHANGED <<notEx, fs, mode, pc, runs, todo, cur, ended, exVars>>

\* extract_metadata, lines 127-158 and 163-168, and process_folder, lines
\* 252-253: a dict is returned and appended; the duplicate is unlinked
ExReadRecord ==
    /\ pc = "ex_read"
    /\ LET name == Head(queue)
           content == fs[cur].root[name]
       IN  /\ extract_metadata(name, content).found
           /\ metadata_list' = Append(metadata_list, extract_metadata(name, content).metadata)
           /\ tmp_dir' = [tmp_dir EXCEPT !.files = Unlinked(@, name)]
    /\ queue' = Tail(queue)
    /\ pc' = "ex_file"
    /\ UNCHANGED <<notEx, fs, mode, runs, todo, cur, ended>>

\* extract_metadata, lines 127, 154-156, 160-168: the codec raises or no valid
\* metadata is found: None is returned; the duplicate is unlinked
ExReadNone ==
    /\ pc = "ex_read"
    /\ LET name == Head(queue)
           content == fs[cur].root[name]
       IN  /\ ~extract_metadata(name, content).found
           /\ tmp_dir' = [tmp_dir EXCEPT !.files = Unlinked(@, name)]
    /\ queue' = Tail(queue)
    /\ pc' = "ex_file"
    /\ UNCHANGED <<notEx, fs, mode, runs, todo, cur, ended, metadata_list>>

\* process_folder, lines 255-256, and save_to_txt: pos.txt is written
ExFolderSave ==
    /\ pc = "ex_file" /\ queue = <<>>
    /\ metadata_list # <<>>
    /\ fs' = [fs EXCEPT ![cur].pos = [exists |-> TRUE, rows |-> metadata_list]]
    /\ ended' = Ended("extract", cur, "returned")
    /\ pc' = "ex_loop"
    /\ UNCHANGED <<notEx, mode, runs, todo, cur, queue, exVars>>

\* process_folder, lines 257-258: nothing was extracted, nothing is written
ExFolderNoData ==
    /\ pc = "ex_file" /\ queue = <<>>
    /\ metadata_list = <<>>
    /\ ended' = Ended("extract", cur, "returned")
    /\ pc' = "ex_loop"
    /\ UNCHANGED <<notEx, fs, mode, runs, todo, cur, queue, exVars>>

\* a variant of ExAllDone after which run_all goes on with the propagation
ExAllDoneSkipsConversion ==
    /\ pc = "ex_loop" /\ todo = <<>>
    /\ tmp_dir' = IF tmp_dir.files = {} THEN [exists |-> FALSE, files |-> {}] ELSE tmp_dir
    /\ pc' = IF mode = "run_all" THEN "cp_start" ELSE "done"
    /\ UNCHANGED <<notEx, fs, mode, runs, todo, cur, queue, ended, metadata_list>>

\* process_all, lines 284-294: the loop is over; the temporary area is removed,
\* unless rmtree raises on a duplicate left in it
ExAllDone ==
    /\ pc = "ex_loop" /\ todo = <<>>
    /\ tmp_dir' = IF tmp_dir.files = {} THEN [exists |-> FALSE, files |-> {}] ELSE tmp_dir
    /\ pc' = IF mode = "run_all" THEN "cv_start" ELSE "done"
    /\ UNCHANGED <<notEx, fs, mode, runs, todo, cur, queue, ended, metadata_list>>

ExtractNext ==
    \/ ExProcessAll
    \/ ExFolderNoJpg
    \/ ExFolderStart
    \/ ExCopy
    \/ ExCopyRaises
    \/ ExReadRecord
    \/ ExReadNone
    \/ ExFolderSave
    \/ ExFolderNoData
    \/ ExAllDone

(***************************************************************************)
(* jpg2tiff.py: ImageProcessor                                             *)
(***************************************************************************)
\* os.path.splitext(filename)[0]: the name up to its last dot, unless only dots
\* come before it
SplitextRoot(filename) ==
    LET i == RFind(filename, ".")
    IN  IF i > 1 /\ \E j \in 1..(i - 1) : filename[j] # "."
        THEN SubSeq(filename, 1, i - 1)
        ELSE filename

\* f.lower().endswith(SUPPORTED_IMAGE_EXTENSIONS)
IsSupportedImage(f) ==
    \/ EndsWith(Lower(f), <<".", "j", "p", "g">>)
    \/ EndsWith(Lower(f), <<".", "j", "p", "e", "g">>)
    \/ EndsWith(Lower(f), <<".", "p", "n", "g">>)

\* the keys of the GPS IFD
GpsTags == {"Exif.GPSInfo.GPSAltitude"}

\* _process_raw_image, lines 133-145: the artifact keeps the GPS tags of the
\* original only
Artifact(filename, original) ==
    File([k \in DOMAIN original.exif \cap GpsTags |-> original.exif[k]],
         NoTags, "ok", "none", filename)

\* a file written under name n: on Windows a name differing in case only is the
\* same file
WriteFile(files, n, content) ==
    IF \E m \in DOMAIN files : FsCase(m) = FsCase(n)
    THEN [files EXCEPT ![CHOOSE m \in DOMAIN files : FsCase(m) = FsCase(n)] = content]
    ELSE WithFile(files, n, content)

\* the raw dump the thermal SDK leaves in temp_dir
RawDump(filename) == File(NoTags, NoTags, "bad", "none", filename)

RawName(filename) == SplitextRoot(filename) \o <<".", "r", "a", "w">>
TiffName(filename) == SplitextRoot(filename) \o <<".", "t", "i", "f", "f">>

\* ProcessManager.run_all, lines 47-51, and __main__ of jpg2tiff.py: where an
\* exception of the conversion ends the run
Raised == "failed"

notCv == <<platform, rawVars, tsVars, cpVars, exVars>>

\* process_subfolders, lines 44-52
CvProcessSubfolders ==
    /\ pc = "cv_start"
    /\ todo' = Subfolders
    /\ pc' = "cv_loop"
    /\ UNCHANGED <<notCv, fs, mode, runs, cur, queue, ended, cvVars>>

\* _create_directory, lines 77-78: shutil.rmtree of the input_dir of folder f
\* raises (the directory is locked, or on Windows it holds a read-only file)
RmtreeRaises(f) ==
    /\ fs[f].input_dir.exists
    /\ \/ f \in locked
       \/ \E n \in DOMAIN fs[f].input_dir.files : Undeletable(n)

\* _process_single_folder, lines 62-64, and _create_directory: shutil.rmtree of
\* input_dir raises; the exception leaves process_subfolders
CvCreateDirectoryRaises ==
    /\ pc = "cv_loop" /\ todo # <<>>
    /\ RmtreeRaises(Head(todo))
    /\ cur' = Head(todo)
    /\ ended' = Ended("convert", Head(todo), "raised")
    /\ pc' = Raised
    /\ UNCHANGED <<notCv, fs, mode, runs, todo, queue, cvVars>>

\* _process_single_folder, lines 62-64, and _move_files_and_process, lines
\* 86-90: the three directories are created anew, the images are listed and moved
CvFolderStart ==
    /\ pc = "cv_loop" /\ todo # <<>>
    /\ LET f == Head(todo)
           images == {n \in DOMAIN fs[f].root : IsSupportedImage(n)}
       IN  /\ ~RmtreeRaises(f)
           /\ image_files' \in Listings(images)
           /\ fs' = [fs EXCEPT ![f].input_dir = Dir([n \in images |-> fs[f].root[n]]),
                               ![f].out_dir = Dir(NoFiles),
                               ![f].temp_dir = Dir(NoFiles),
                               ![f].root = [n \in DOMAIN fs[f].root \ images |-> fs[f].root[n]]]
           /\ cur' = f
    /\ queue' = image_files'
    /\ todo' = Tail(todo)
    /\ pc' = "cv_file"
    /\ UNCHANGED <<notCv, mode, runs, ended, locked, read_only>>

\* _move_files_and_process, lines 95-103: one image is converted
CvFileConverted ==
    /\ pc = "cv_file" /\ queue # <<>>
    /\ LET filename == Head(queue)
           original == fs[cur].input_dir.files[filename]
       IN  /\ original.sdk = "ok"
           /\ fs' = [fs EXCEPT
                ![cur].temp_dir.files = WriteFile(@, RawName(filename), RawDump(filename)),
                ![cur].out_dir.files = WriteFile(@, TiffName(filename), Artifact(filename, original))]
    /\ queue' = Tail(queue)
    /\ UNCHANGED <<notCv, mode, pc, runs, todo, cur, ended, cvVars>>

\* _convert_with_dji_sdk, lines 113-123: the SDK exits non-zero and
\* subprocess.run raises; _process_single_folder, lines 69-72, removes temp_dir;
\* the exception leaves process_subfolders
CvSdkRaises ==
    /\ pc = "cv_file" /\ queue # <<>>
    /\ fs[cur].input_dir.files[Head(queue)].sdk = "fail"
    /\ fs' = [fs EXCEPT ![cur].temp_dir = NoDir]
    /\ ended' = Ended("convert", cur, "raised")
    /\ pc' = Raised
    /\ UNCHANGED <<notCv, mode, runs, todo, cur, queue, cvVars>>

\* _process_raw_image, lines 127-134: reshape raises on a dump of the wrong size,
\* or piexif.load on a file that is no JPEG; temp_dir is removed; the exception
\* leaves process_subfolders
CvProcessRawRaises ==
    /\ pc = "cv_file" /\ queue # <<>>
    /\ fs[cur].input_dir.files[Head(queue)].sdk \in {"short", "nojpeg"}
    /\ fs' = [fs EXCEPT ![cur].temp_dir = NoDir]
    /\ ended' = Ended("convert", cur, "raised")
    /\ pc' = Raised
    /\ UNCHANGED <<notCv, mode, runs, todo, cur, queue, cvVars>>

\* _process_single_folder, lines 69-72: all images are converted, temp_dir is
\* removed
CvFolderDone ==
    /\ pc = "cv_file" /\ queue = <<>>
    /\ fs' = [fs EXCEPT ![cur].temp_dir = NoDir]
    /\ ended' = Ended("convert", cur, "returned")
    /\ pc' = "cv_loop"
    /\ UNCHANGED <<notCv, mode, runs, todo, cur, queue, cvVars>>

\* process_subfolders returns
CvAllDone ==
    /\ pc = "cv_loop" /\ todo = <<>>
    /\ pc' = IF mode = "run_all" THEN "cp_start" ELSE "done"
    /\ UNCHANGED <<notCv, fs, mode, runs, todo, cur, queue, ended, cvVars>>

\* the process is interrupted while it converts the images of a folder
Interrupt ==
    /\ pc = "cv_file" /\ queue # <<>>
    /\ pc' = "killed"
    /\ UNCHANGED <<notCv, fs, mode, runs, todo, cur, queue, ended, cvVars>>

ConvertNext ==
    \/ CvProcessSubfolders
    \/ CvCreateDirectoryRaises
    \/ CvFolderStart
    \/ CvFileConverted
    \/ CvSdkRaises
    \/ CvProcessRawRaises
    \/ CvFolderDone
    \/ CvAllDone

(***************************************************************************)
(* main.py: ProcessManager                                                 *)
(***************************************************************************)
\* the tools a user starts: main.py, or one of the three scripts by itself
Modes == {"run_all", "extract", "convert", "copy"}

\* where the tool of a mode starts
StartPc(m) ==
    CASE m = "run_all" -> "ex_start"
      [] m = "extract" -> "ex_start"
      [] m = "convert" -> "cv_start"
      [] m = "copy" -> "cp_start"

\* one of the tools is started again on the same root
RunAgain ==
    /\ pc \in {"done", "failed", "killed"}
    /\ runs < MaxRuns
    /\ runs' = runs + 1
    /\ mode' \in Modes
    /\ pc' = StartPc(mode')
    /\ todo' = <<>> /\ cur' = 0 /\ queue' = <<>> /\ ended' = NotEnded
    /\ tiff_files' = NoFiles /\ pairs' = <<>> /\ success_count' = 0 /\ copy_log' = <<>>
    /\ tmp_dir' = [exists |-> FALSE, files |-> {}] /\ metadata_list' = <<>>
    /\ image_files' = <<>>
    /\ UNCHANGED <<platform, rawVars, tsVars, fs, locked, read_only>>

\* ProcessManager.run_all: the three stages, one after the other; the tools can
\* be interrupted and started again
RunAllNext ==
    \/ ExtractNext
    \/ ConvertNext
    \/ CopyNext
    \/ Interrupt
    \/ RunAgain

(***************************************************************************)
(* Initial states and specifications, one per entry point.                 *)
(***************************************************************************)
Platforms == {"Windows", "Linux"}

RawIdle ==
    /\ raw_size = <<1, 1>>
    /\ raw_words = <<>>
    /\ raw_frame = NoFrame
    /\ raw_pc = "idle"

TsIdle ==
    /\ ts_files = <<>>
    /\ ts_processed = 0
    /\ ts_skipped = 0
    /\ ts_errors = 0
    /\ ts_calls = <<>>

CpIdle ==
    /\ tiff_files = NoFiles /\ pairs = <<>> /\ success_count = 0 /\ copy_log = <<>>

ExIdle ==
    /\ tmp_dir = [exists |-> FALSE, files |-> {}] /\ metadata_list = <<>>

CvIdle ==
    /\ image_files = <<>> /\ locked = {} /\ read_only = {}

NoTable == [exists |-> FALSE, rows |-> <<>>]

\* no batch tool runs
BatchIdle ==
    /\ fs = [f \in Folders |-> [root |-> NoFiles, input_dir |-> NoDir, out_dir |-> NoDir,
                                temp_dir |-> NoDir, pos |-> NoTable]]
    /\ mode = "none" /\ pc = "idle" /\ runs = 0 /\ todo = <<>> /\ cur = 0
    /\ queue = <<>> /\ ended = NotEnded
    /\ CpIdle
    /\ ExIdle
    /\ CvIdle

\* _process_raw_image called on one image and its raw dump
RawInit ==
    /\ platform \in Platforms
    /\ TsIdle
    /\ BatchIdle
    /\ raw_size \in ImageSizes
    /\ \E n \in RawLengths(raw_size) : raw_words \in SeqsOfLen(RawWordPool, n)
    /\ raw_frame = NoFrame
    /\ raw_pc = "call"

RawNext == ProcessRawImage \/ ProcessRawImageError

SpecRaw == RawInit /\ [][RawNext]_vars

\* process_single_image called on the files of one directory
TsInit ==
    /\ platform \in Platforms
    /\ RawIdle
    /\ BatchIdle
    /\ \E names \in SUBSET TsNamePool :
        /\ Cardinality(names) \in 1..MaxTsFiles
        /\ ts_files \in [names -> TsDatePool]
    /\ ts_processed = 0
    /\ ts_skipped = 0
    /\ ts_errors = 0
    /\ ts_calls = <<>>

TsNext ==
    \/ \E path \in TsNamePool : ProcessSingleImageMissing(path)
    \/ \E path \in DOMAIN ts_files : ProcessSingleImageSkip(path)
    \/ \E path \in DOMAIN ts_files : ProcessSingleImageRename(path)
    \/ \E path \in DOMAIN ts_files : ProcessSingleImageError(path)

SpecTs == TsInit /\ [][TsNext]_vars

\* the names in S can be the names of one directory (on Windows no two of them
\* differ in case only)
NamesOk(S) ==
    platform = "Linux" \/ \A a, b \in S : Lower(a) = Lower(b) => a = b

\* the directories with at most MaxFiles files, named and filled from pool
\* (name -> the contents the file may have)
PoolDirs(pool) ==
    UNION { {files \in [names -> UNION {pool[n] : n \in names}] :
                \A n \in names : files[n] \in pool[n]} :
            names \in {S \in SUBSET DOMAIN pool : Cardinality(S) <= MaxFiles /\ NamesOk(S)} }

\* tag values
V_31_5 == <<"3", "1", ".", "5">>
V_9 == <<"9">>
V_0 == <<"0">>
V_50 == <<"5", "0">>
V_DJI == <<"D", "J", "I">>
V_PIL == <<"P", "I", "L">>
V_n == <<"n">>

\* source images of a propagation run, by name
CopySrcPool ==
    (<<"A", ".", "j", "p", "g">> :> {File(("Exif.GPSInfo.GPSAltitude" :> V_50) @@ ("Exif.Image.Make" :> V_DJI),
                      ("Xmp.drone-dji.GpsLatitude" :> V_31_5), "ok", "none", <<>>)})
    @@ (<<"a", ".", "J", "P", "G">> :> {File(NoTags, ("Xmp.drone-dji.GpsLatitude" :> V_9), "ok", "none", <<>>)})
    @@ (<<"B", ".", "j", "p", "g">> :> {File(NoTags, NoTags, "bad", "none", <<>>)})
    @@ (<<"A", ".", "p", "n", "g">> :> {File(NoTags, NoTags, "ok", "none", <<>>)})

\* destination files of a propagation run, by name
CopyDstPool ==
    (<<"A", ".", "t", "i", "f", "f">> :> {File(NoTags, NoTags, "ok", "none", <<>>),
                  File(("Exif.Image.Make" :> V_PIL) @@ ("Exif.Image.Software" :> V_n),
                       ("Xmp.drone-dji.GpsLatitude" :> V_0) @@ ("Xmp.dc.title" :> V_n),
                       "ok", "none", <<>>),
                  File(("Exif.Image.Make" :> V_PIL), NoTags, "exif_ro", "none", <<>>)})
    @@ (<<"A", ".", "t", "i", "f">> :> {File(("Exif.Image.Make" :> V_PIL),
                         ("Xmp.drone-dji.GpsLatitude" :> V_0) @@ ("Xmp.dc.title" :> V_n),
                         "xmp_ro", "none", <<>>)})
    @@ (<<"a", ".", "T", "I", "F", "F">> :> {File(NoTags,
                          ("Xmp.drone-dji.GpsLatitude" :> V_0) @@ ("Xmp.dc.title" :> V_n),
                          "ok", "none", <<>>)})
    @@ (<<"B", ".", "t", "i", "f", "f">> :> {File(NoTags, NoTags, "ok", "none", <<>>)})
    @@ (<<"A", ".", "p", "n", "g">> :> {File(NoTags, NoTags, "ok", "none", <<>>)})

Folder(root, input_dir, out_dir, temp_dir, pos) ==
    [root |-> root, input_dir |-> input_dir, out_dir |-> out_dir,
     temp_dir |-> temp_dir, pos |-> pos]

\* folders a propagation run may find: any input_dir and out_dir from the pools
CopyFolderPool ==
    {Folder(NoFiles, Dir(src), Dir(dst), NoDir, NoTable) :
        src \in PoolDirs(CopySrcPool), dst \in PoolDirs(CopyDstPool)}

\* the other folders of the root: one without input_dir, one without out_dir, one
\* with a single pair
CopyPlainFolderPool ==
    {Folder(NoFiles, NoDir, Dir(NoFiles), NoDir, NoTable),
     Folder(NoFiles, Dir(NoFiles), NoDir, NoDir, NoTable),
     Folder(NoFiles,
            Dir(<<"A", ".", "j", "p", "g">> :> File(NoTags, ("Xmp.drone-dji.GpsLatitude" :> V_31_5), "ok", "none", <<>>)),
            Dir(<<"A", ".", "t", "i", "f", "f">> :> File(NoTags, NoTags, "ok", "none", <<>>)),
            NoDir, NoTable)}

\* copy_metadata.py runs on a root whose folders were filled before
CopyInit ==
    /\ platform \in Platforms
    /\ RawIdle
    /\ TsIdle
    /\ \E r \in Folders, rich \in CopyFolderPool, plain \in [Folders -> CopyPlainFolderPool] :
        fs = [f \in Folders |-> IF f = r THEN rich ELSE plain[f]]
    /\ mode = "copy" /\ pc = "cp_start" /\ runs = 1 /\ todo = <<>> /\ cur = 0
    /\ queue = <<>> /\ ended = NotEnded
    /\ CpIdle
    /\ ExIdle
    /\ CvIdle

SpecCopy == CopyInit /\ [][CopyNext]_vars

\* XMP tags of a source image with a full RTK record
FullXmp ==
    ("Xmp.drone-dji.RtkStdLat" :> <<"0", ".", "0", "1">>)
    @@ ("Xmp.drone-dji.GpsLatitude" :> <<"+", "3", "1", ".", "5", "0">>)
    @@ ("Xmp.drone-dji.GpsLongitude" :> <<" ", "1", "2", "1", ".", "4", " ">>)
    @@ ("Xmp.drone-dji.AbsoluteAltitude" :> <<"+", "5", "0", ".", "2">>)
    @@ ("Xmp.drone-dji.GimbalYawDegree" :> <<"+", "1", "0">>)
    @@ ("Xmp.drone-dji.GimbalPitchDegree" :> <<"-", "9", "0">>)
    @@ ("Xmp.drone-dji.GimbalRollDegree" :> <<"+", "0">>)

\* XMP tags whose coordinates are out of range or no number
BadCoordXmp ==
    ("Xmp.drone-dji.GpsLatitude" :> <<"9", "0", ".", "5">>)
    @@ ("Xmp.drone-dji.GpsLongitude" :> <<"1", ".", "2", ".", "3">>)
    @@ ("Xmp.drone-dji.AbsoluteAltitude" :> <<"7">>)

\* images of a folder an extraction run may find, by name
ExtractPool ==
    (<<"A", ".", "j", "p", "g">> :> {File(NoTags, FullXmp, "ok", "ok", <<>>),
                 File(NoTags, NoTags, "ok", "ok", <<>>)})
    @@ (<<"B", ".", "J", "P", "G">> :> {File(NoTags, BadCoordXmp, "ok", "ok", <<>>),
                    File(NoTags, NoTags, "bad", "ok", <<>>)})
    @@ (<<"C", ".", "J", "p", "g">> :> {File(NoTags, ("Xmp.drone-dji.GpsLatitude" :> <<"-", "9", "0", ".", "0">>), "ok", "ok", <<>>)})
    @@ (<<"A", ".", "p", "n", "g">> :> {File(NoTags, FullXmp, "ok", "ok", <<>>)})
    @@ (<<"C", ".", "j", "p", "g">> :> {File(NoTags, FullXmp, "ok", "ok", <<>>)})

ExtractPlainPool ==
    {NoFiles, <<"A", ".", "j", "p", "g">> :> File(NoTags, FullXmp, "ok", "ok", <<>>)}

\* extract_metadata.py runs on a root of freshly captured folders
ExtractInit ==
    /\ platform \in Platforms
    /\ RawIdle
    /\ TsIdle
    /\ \E r \in Folders, rich \in PoolDirs(ExtractPool), plain \in [Folders -> ExtractPlainPool] :
        fs = [f \in Folders |->
                Folder(IF f = r THEN rich ELSE plain[f], NoDir, NoDir, NoDir, NoTable)]
    /\ mode = "extract" /\ pc = "ex_start" /\ runs = 1 /\ todo = <<>> /\ cur = 0
    /\ queue = <<>> /\ ended = NotEnded
    /\ CpIdle
    /\ ExIdle
    /\ image_files = <<>> /\ locked = {}
    /\ read_only \in {{}, {<<"A", ".", "j", "p", "g">>}}

SpecExtract == ExtractInit /\ [][ExtractNext]_vars

\* EXIF tags of a capture
CaptureExif == ("Exif.GPSInfo.GPSAltitude" :> V_50) @@ ("Exif.Image.Make" :> V_DJI)

\* images of a freshly captured folder, by name
CapturePool ==
    (<<"A", ".", "j", "p", "g">> :> {File(CaptureExif, FullXmp, "ok", "ok", <<>>)})
    @@ (<<"B", ".", "J", "P", "G">> :> {File(CaptureExif, NoTags, "ok", "fail", <<>>),
                    File(CaptureExif, FullXmp, "ok", "short", <<>>),
                    File(CaptureExif, NoTags, "bad", "ok", <<>>)})
    @@ (<<"A", ".", "j", "p", "e", "g">> :> {File(CaptureExif, FullXmp, "ok", "ok", <<>>)})
    @@ (<<"A", ".", "p", "n", "g">> :> {File(NoTags, NoTags, "ok", "nojpeg", <<>>)})

CapturePlainPool ==
    {NoFiles, <<"C", ".", "j", "p", "g">> :> File(CaptureExif, FullXmp, "ok", "ok", <<>>)}

\* main.py runs on a root of freshly captured folders
RunAllInit ==
    /\ platform \in Platforms
    /\ RawIdle
    /\ TsIdle
    /\ \E r \in Folders, rich \in PoolDirs(CapturePool), plain \in [Folders -> CapturePlainPool] :
        /\ fs = [f \in Folders |->
                    Folder(IF f = r THEN rich ELSE plain[f], NoDir, NoDir, NoDir, NoTable)]
        /\ locked \in SUBSET {r}
    /\ mode = "run_all" /\ pc = "ex_start" /\ runs = 1 /\ todo = <<>> /\ cur = 0
    /\ queue = <<>> /\ ended = NotEnded
    /\ CpIdle
    /\ ExIdle
    /\ image_files = <<>>
    /\ read_only \in {{}, {<<"A", ".", "j", "p", "g">>}}

SpecRunAll == RunAllInit /\ [][RunAllNext]_vars

(***************************************************************************)
(* Claims                                                                  *)
(***************************************************************************)
\* ten times the value a frame cell denotes
TimesTen(d) == (IF d.neg THEN -1 ELSE 1) * (d.int * 10 + d.frac)

\* the signed value of a 16-bit word, by its sign bit
SignedSample(word) == (word % 32768) - (IF word \div 32768 = 1 THEN 32768 ELSE 0)

\* C10: given a raw buffer of exactly width*height signed 16-bit samples,
\* _process_raw_image produces a frame of height rows and width columns whose
\* value at row r, column c is raw[r*width + c] / 10 (rows and columns from 0).
C10_FrameValues ==
    raw_pc = "saved" =>
        /\ Len(raw_frame) = raw_size[2]
        /\ \A r \in 0..(raw_size[2] - 1) :
            /\ Len(raw_frame[r + 1]) = raw_size[1]
            /\ \A c \in 0..(raw_size[1] - 1) :
                LET d == raw_frame[r + 1][c + 1]
                IN  /\ TimesTen(d) = SignedSample(raw_words[r * raw_size[1] + c + 1])
                    /\ d.frac \in 0..9 /\ d.int >= 0
                    /\ (d.neg => TimesTen(d) < 0)

\* C10 witness: the buffer [150, -50, 200, 300] with width 2 and height 2 has been
\* converted to [[15.0, -5.0], [20.0, 30.0]]
C10_Witness ==
    /\ raw_pc = "saved"
    /\ raw_size = <<2, 2>>
    /\ raw_words = <<150, 65486, 200, 300>>
    /\ raw_frame = << << [neg |-> FALSE, int |-> 15, frac |-> 0],
                         [neg |-> TRUE, int |-> 5, frac |-> 0] >>,
                      << [neg |-> FALSE, int |-> 20, frac |-> 0],
                         [neg |-> FALSE, int |-> 30, frac |-> 0] >> >>

\* call b is a second application to the image of call a: a renamed it (so it
\* carries a well-formed DateTimeOriginal and a stem of at least 3 segments) and
\* b is the next call, on the name a gave it
C4_SecondApplication(a, b) == a.ret /\ b.path = a.to

\* C4: renaming is idempotent: when process_single_image has renamed an image
\* (present, well-formed DateTimeOriginal, at least 3 segments) and is applied to
\* it again, the second application is a skip: it returns False, leaves the name
\* as the first application made it, and increments skipped_count.
C4_RenameIdempotent ==
    \A i \in 1..(Len(ts_calls) - 1) :
        LET a == ts_calls[i]
            b == ts_calls[i + 1]
        IN  C4_SecondApplication(a, b) =>
                /\ ~b.ret
                /\ b.to = a.to
                /\ b.skipped = a.skipped + 1

\* the base name of a file: its name without the extension
BaseName(name) ==
    IF \E i \in 2..(Len(name) - 1) : name[i] = "."
    THEN SubSeq(name, 1, (CHOOSE i \in 2..(Len(name) - 1) :
                            name[i] = "." /\ \A j \in (i + 1)..(Len(name) - 1) : name[j] # ".") - 1)
    ELSE name

\* the source files find_image_pairs enumerates: extension .jpg in any case
IsJpgSource(name) ==
    /\ Len(name) >= 4
    /\ name[Len(name) - 3] = "."
    /\ name[Len(name) - 2] \in {"j", "J"}
    /\ name[Len(name) - 1] \in {"p", "P"}
    /\ name[Len(name)] \in {"g", "G"}

\* the destination files find_image_pairs enumerates: the target extension
\* .tif... (in any case where the file system ignores case)
IsTiffTarget(name) ==
    \E i \in 1..(Len(name) - 3) :
        /\ name[i] = "."
        /\ \/ <<name[i + 1], name[i + 2], name[i + 3]>> = <<"t", "i", "f">>
           \/ /\ platform = "Windows"
              /\ name[i + 1] \in {"t", "T"} /\ name[i + 2] \in {"i", "I"}
              /\ name[i + 3] \in {"f", "F"}

\* find_image_pairs has returned its result for folder cur
FindReturned == pc = "cp_found"

\* the sources that are in a pair of the result
PairedSources == {pairs[i][1] : i \in 1..Len(pairs)}

\* C6: the result of find_image_pairs holds no two pairs with the same source
\* file, and in every pair the source (a file of the source directory) and the
\* destination (a file of the destination directory) have an identical base name.
C6_PairsUniqueSameBase ==
    FindReturned =>
        /\ \A i, j \in 1..Len(pairs) : pairs[i][1] = pairs[j][1] => i = j
        /\ \A i \in 1..Len(pairs) :
            /\ pairs[i][1] \in DOMAIN fs[cur].input_dir.files
            /\ pairs[i][2] \in DOMAIN fs[cur].out_dir.files
            /\ BaseName(pairs[i][1]) = BaseName(pairs[i][2])

\* C6 witness: find_image_pairs returned two pairs
C6_Witness == FindReturned /\ Len(pairs) >= 2

\* C7: find_image_pairs is complete and never aborts on an unmatched file: a
\* source image (a .jpg file of the source directory) is in the result exactly
\* when the destination directory holds a file (of the target extension) with
\* the same base name; no other file is in the result.
C7_PairsComplete ==
    FindReturned =>
        /\ \A s \in DOMAIN fs[cur].input_dir.files :
            IsJpgSource(s) =>
                (s \in PairedSources <=>
                    \E d \in DOMAIN fs[cur].out_dir.files :
                        IsTiffTarget(d) /\ BaseName(d) = BaseName(s))
        /\ \A s \in PairedSources : IsJpgSource(s)
        /\ \A i \in 1..Len(pairs) : IsTiffTarget(pairs[i][2])

\* C7 witness: one source was paired and another one, without a match, omitted
C7_Witness ==
    /\ FindReturned
    /\ Len(pairs) >= 1
    /\ \E s \in DOMAIN fs[cur].input_dir.files : IsJpgSource(s) /\ s \notin PairedSources

\* the last copy_metadata call of the running folder and its destination now
LastCopy == copy_log[Len(copy_log)]
LastCopyDst == fs[cur].out_dir.files[LastCopy.pair[2]]

\* D' holds every tag of T with T's value and every tag of D whose key is not
\* in T with D's value
TagsPropagated(T, D, Dafter) ==
    /\ \A k \in DOMAIN T : k \in DOMAIN Dafter /\ Dafter[k] = T[k]
    /\ \A k \in DOMAIN D \ DOMAIN T : k \in DOMAIN Dafter /\ Dafter[k] = D[k]

\* C8: after a successful copy_metadata from a source with tags T to a
\* destination with tags D, the destination's tags D' contain T united with D
\* restricted to the keys not in T, for the EXIF and the XMP namespace each.
C8_TagsRoundTrip ==
    (copy_log # <<>> /\ LastCopy.ret) =>
        /\ TagsPropagated(LastCopy.src.exif, LastCopy.before.exif, LastCopyDst.exif)
        /\ TagsPropagated(LastCopy.src.xmp, LastCopy.before.xmp, LastCopyDst.xmp)

\* T and D share a key with different values and D has a key T has not
TagsOverlap(T, D) ==
    /\ \E k \in DOMAIN T \cap DOMAIN D : T[k] # D[k]
    /\ DOMAIN D \ DOMAIN T # {}

\* C8 witness: a copy succeeded onto a destination that had, in both
\* namespaces, a tag of the source with another value and a tag of its own
C8_Witness ==
    /\ copy_log # <<>> /\ LastCopy.ret
    /\ TagsOverlap(LastCopy.src.exif, LastCopy.before.exif)
    /\ TagsOverlap(LastCopy.src.xmp, LastCopy.before.xmp)

\* the copy of this call raised an error: a file the codec cannot open, or a
\* write the codec refuses
CopyRaised(call) ==
    \/ call.src.codec = "bad"
    \/ call.before.codec = "bad"
    \/ call.before.codec = "exif_ro" /\ DOMAIN call.src.exif # {}
    \/ call.before.codec = "xmp_ro" /\ DOMAIN call.src.xmp # {}

\* the loop of process_single_folder over the pairs of folder cur is over
CopyLoopOver ==
    /\ pc \in {"cp_loop", "done"} /\ cur # 0
    /\ ended["copy"][cur] = "returned"
    /\ pairs # <<>>

\* C9: in process_single_folder a failure on one pair does not abort the others:
\* every pair is attempted exactly once, in order, and the success count is the
\* number of pairs whose copy raised no error.
C9_EveryPairAttempted ==
    CopyLoopOver =>
        /\ Len(copy_log) = Len(pairs)
        /\ \A i \in 1..Len(pairs) : copy_log[i].pair = pairs[i]
        /\ success_count = Cardinality({i \in 1..Len(copy_log) : ~CopyRaised(copy_log[i])})

\* C9 witness: the loop is over, its first copy failed and its second succeeded
C9_Witness ==
    /\ CopyLoopOver
    /\ Len(copy_log) >= 2
    /\ CopyRaised(copy_log[1]) /\ ~copy_log[1].ret
    /\ ~CopyRaised(copy_log[2]) /\ copy_log[2].ret

\* the tags extract_metadata reads
ExtractedTags ==
    {"Xmp.drone-dji.RtkStdLat", "Xmp.drone-dji.GpsLatitude", "Xmp.drone-dji.GpsLongitude",
     "Xmp.drone-dji.AbsoluteAltitude", "Xmp.drone-dji.GimbalYawDegree",
     "Xmp.drone-dji.GimbalPitchDegree", "Xmp.drone-dji.GimbalRollDegree"}

\* every extracted tag of the image is empty or absent
NoTagRead(content) == \A k \in ExtractedTags : Get(content.xmp, k) = <<>>

\* the table of the folder whose extraction has just returned
TableWritten == pc = "ex_loop" /\ cur # 0 /\ fs[cur].pos.exists

\* C5: the number of data rows of the written table equals the number of source
\* images whose extraction returned a record (one row per such image), and an
\* image from which no tag was read never appears as a row.
C5_RowsAreImagesWithTags ==
    TableWritten =>
        LET rows == fs[cur].pos.rows
        IN  /\ Len(rows) = Cardinality({rows[i].name : i \in DOMAIN rows})
            /\ \A i \in DOMAIN rows : ~NoTagRead(fs[cur].root[rows[i].name])

\* the conversion of folder f has terminated in the first run over the root, and
\* the only faults of its images are the two per-file failures
ConversionEnded(f) ==
    /\ runs = 1 /\ pc # "killed" /\ ended["convert"][f] # "no"
    /\ \A n \in DOMAIN fs[f].input_dir.files :
            fs[f].input_dir.files[n].sdk \in {"ok", "fail", "short"}

\* the image has no fault of its own
Faultless(original) == original.sdk = "ok"

\* C1: during the conversion of one folder a per-file failure (a non-zero exit of
\* the raw-unpacking collaborator, or a raw buffer whose size differs from
\* width*height) fails that file only: every remaining image of the folder is
\* still attempted and, if it has no fault of its own, gets its output artifact
\* in out_dir.
C1_FileFailureIsolated ==
    \A f \in Folders :
        ConversionEnded(f) =>
            \A n \in DOMAIN fs[f].input_dir.files :
                Faultless(fs[f].input_dir.files[n]) =>
                    \E t \in DOMAIN fs[f].out_dir.files : fs[f].out_dir.files[t].src = n

\* run_all has terminated, in the first run over the root
RunEnded == runs = 1 /\ mode = "run_all" /\ pc \in {"done", "failed"}

\* C2: a per-file or per-folder error never escapes the folder loop: when the
\* conversion of some file of a folder fails, every later folder under the root is
\* still converted by process_subfolders, and run_all still runs the propagation
\* stage for all folders.
C2_ErrorsStayInFolderLoop ==
    RunEnded =>
        \A f \in Folders : ended["convert"][f] # "no" /\ ended["copy"][f] # "no"

\* C3: whenever _process_single_folder terminates for a folder, by normal return
\* or by an exception raised at any step (a staging directory left over from an
\* interrupted earlier run included), the folder's temp_dir does not exist.
C3_StagingNeverSurvives ==
    \A f \in Folders :
        (pc # "killed" /\ ended["convert"][f] # "no") => ~fs[f].temp_dir.exists

\* no call of extract_metadata is running
ExtractReturned == pc \in {"ex_file", "ex_loop"}

\* C11: the duplicate of the source file that extract_metadata creates in the
\* temporary area is deleted before extract_metadata returns, on every path
\* (a record, no metadata found, an exception while copying or reading).
C11_DuplicateDeleted ==
    ExtractReturned => tmp_dir.files = {}

\* the characters of file names in code point order
CodePoints ==
    <<".", "0", "1", "2", "3", "4", "5", "6", "7", "8", "9",
      "A", "B", "C", "D", "E", "F", "G", "I", "J", "N", "P", "T", "X", "_",
      "a", "b", "c", "d", "e", "f", "g", "i", "j", "n", "p", "t", "x">>

CodePoint(ch) == CHOOSE i \in 1..Len(CodePoints) : CodePoints[i] = ch

\* a sorts before b, lexicographically
SortsBefore(a, b) ==
    \E k \in 1..Len(b) :
        /\ \A i \in 1..(k - 1) : i <= Len(a) /\ a[i] = b[i]
        /\ \/ k = Len(a) + 1
           \/ k <= Len(a) /\ CodePoint(a[k]) < CodePoint(b[k])

\* C12: the rows of a folder's table are in lexicographic order of the file
\* names: of two images of the folder that both yield a record, the one whose
\* name sorts first is written on the earlier row.
C12_RowsInNameOrder ==
    TableWritten =>
        LET rows == fs[cur].pos.rows
        IN  \A i, j \in DOMAIN rows :
                SortsBefore(rows[i].name, rows[j].name) => i < j

\* the extraction / conversion / propagation of folder f is running or has ended
\* in this run
ExtractionStarted(f) ==
    ended["extract"][f] # "no" \/ (pc \in {"ex_file", "ex_read"} /\ cur = f)

ConversionStarted(f) ==
    ended["convert"][f] # "no" \/ (pc = "cv_file" /\ cur = f)

PropagationStarted(f) ==
    ended["copy"][f] # "no" \/ (pc \in {"cp_find", "cp_found", "cp_copy"} /\ cur = f)

ConvertedWithoutFailure(f) == ended["convert"][f] = "returned" /\ fs[f].out_dir.exists

\* C14: after a folder is converted without any per-file failure, out_dir holds
\* exactly one converted artifact per image relocated into input_dir: no two
\* distinct input images map to the same artifact, none is overwritten by a
\* later file of the folder.
C14_OneArtifactPerImage ==
    \A f \in Folders :
        ConvertedWithoutFailure(f) =>
            LET images == DOMAIN fs[f].input_dir.files
                artifacts == fs[f].out_dir.files
            IN  /\ Cardinality(DOMAIN artifacts) = Cardinality(images)
                /\ \A n \in images : \E t \in DOMAIN artifacts : artifacts[t].src = n

\* the original images folder f holds, in its root or in its input_dir
Originals(folders, f) ==
    {n \in DOMAIN folders[f].root : IsSupportedImage(n)}
        \cup DOMAIN folders[f].input_dir.files

\* C15: no original image is ever lost by the pipeline: over any number of
\* consecutive executions of main.py on the same root (a re-run over an already
\* processed folder included), an original image of a folder stays in the folder,
\* in its root or, once relocated, in its input_dir.
C15_OriginalsKept ==
    [][(mode = "run_all" /\ mode' = "run_all") =>
            \A f \in Folders : Originals(fs, f) \subseteq Originals(fs', f)]_vars

\* a first run of main.py has converted folder cur and propagated onto it
\* without any failure
FailureFreeRun ==
    /\ mode = "run_all" /\ runs = 1
    /\ pc \in {"cp_loop", "done"} /\ cur # 0
    /\ ended["convert"][cur] = "returned" /\ ended["copy"][cur] = "returned"
    /\ \A i \in DOMAIN copy_log : copy_log[i].ret

\* the tags of the file are among those of the artifact
HasTagsOf(artifact, original) ==
    /\ \A k \in DOMAIN original.exif :
            k \in DOMAIN artifact.exif /\ artifact.exif[k] = original.exif[k]
    /\ \A k \in DOMAIN original.xmp :
            k \in DOMAIN artifact.xmp /\ artifact.xmp[k] = original.xmp[k]

\* C16: after a failure-free pipeline run every artifact the converter wrote to
\* out_dir (for the input extensions .jpg, .jpeg and .png alike) is the
\* destination of exactly one pair found by find_image_pairs and has received
\* the tags of the input image it was converted from.
C16_ArtifactsGetTheirTags ==
    FailureFreeRun =>
        \A t \in DOMAIN fs[cur].out_dir.files :
            LET artifact == fs[cur].out_dir.files[t]
            IN  /\ Cardinality({i \in DOMAIN pairs : pairs[i][2] = t}) = 1
                /\ artifact.src \in DOMAIN fs[cur].input_dir.files
                /\ HasTagsOf(artifact, fs[cur].input_dir.files[artifact.src])

\* C17: propagation onto one destination is all-or-nothing: whenever
\* copy_metadata returns False for a pair, the destination file's tags in both
\* namespaces are what they were before the call.
C17_FailedCopyLeavesDestination ==
    (copy_log # <<>> /\ ~LastCopy.ret) =>
        /\ LastCopyDst.exif = LastCopy.before.exif
        /\ LastCopyDst.xmp = LastCopy.before.xmp

====
